---- MODULE Spec2Model ----
(***************************************************************************)
(* Model of csr2d/kick.py: the two entry points csr2d_kick_calc and        *)
(* csr1d_steady_state_kick_calc, driven by a caller that owns the bunch    *)
(* arrays and the cached kernel grids.                                     *)
(*                                                                         *)
(* Numbers.  Floating point values are modelled as exact rationals <<n,d>> *)
(* extended with the IEEE specials <<1,0>> (+inf), <<-1,0>> (-inf) and     *)
(* <<0,0>> (NaN), so that a division by zero done by numpy propagates the  *)
(* way it does in the program.  The results of the physics kernels and of  *)
(* the scipy routines (savgol_filter, oaconvolve, RectBivariateSpline) are *)
(* uninterpreted terms <<"tag", arguments...>>: equal arguments give equal *)
(* results and nothing else is assumed about them.                         *)
(*                                                                         *)
(* Arrays are sequences; source index i is position i+1.                   *)
(***************************************************************************)
EXTENDS Integers, Sequences, FiniteSets, TLC

VARIABLES
    scen,    \* what the caller holds fixed: species, bunch, gamma, |rho|, nz, nx, zlim, xlim
    heap,    \* the array objects: the caller's and those a call allocates
    pc,      \* position of the running call ("idle" between calls)
    args,    \* arguments of the running call
    loc,     \* local variables of the running call
    out,     \* how the running call ended: status and result mapping
    prev,    \* the caller's note of the previous csr2d_kick_calc call that returned
    pool     \* the map evaluator: tasks submitted, in flight, finished, collected

vars == <<scen, heap, pc, args, loc, out, prev, pool>>

-----------------------------------------------------------------------------
(* Bounds of the model *)

MaxNz == 13
MaxNx == 4
MaxWorkers == 2

(* Literals of the program *)

SavgolWindow == 13
SplineDegree == 3

-----------------------------------------------------------------------------
(* Extended rational arithmetic *)

Abs(n) == IF n < 0 THEN -n ELSE n

Sgn(n) == IF n > 0 THEN 1 ELSE IF n < 0 THEN -1 ELSE 0

RECURSIVE GCD(_, _)
GCD(a, b) == IF b = 0 THEN a ELSE GCD(b, a % b)

Norm(n, d) ==
    IF d = 0 THEN <<Sgn(n), 0>>
    ELSE LET g == GCD(Abs(n), Abs(d))
         IN  <<(Sgn(d) * n) \div g, Abs(d) \div g>>

R(n) == <<n, 1>>
NaN == <<0, 0>>
IsFinite(a) == a[2] # 0
IsNaN(a) == a = NaN
RNeg(a) == <<-a[1], a[2]>>
RMul(a, b) == Norm(a[1] * b[1], a[2] * b[2])
RDiv(a, b) == Norm(a[1] * b[2] * Sgn(b[1]), a[2] * Abs(b[1]))
RAdd(a, b) ==
    IF a[2] = 0 /\ b[2] = 0
    THEN IF a = b THEN a ELSE NaN
    ELSE Norm(a[1] * b[2] + b[1] * a[2], a[2] * b[2])
RSub(a, b) == RAdd(a, RNeg(b))
RPos(a) == a[1] > 0
RFloor(a) == a[1] \div a[2]

(* sums, halving the range so that the evaluation stays shallow *)
RECURSIVE RSumRange(_, _, _)
RSumRange(s, lo, hi) ==
    IF lo > hi THEN R(0)
    ELSE IF lo = hi THEN s[lo]
    ELSE LET mid == (lo + hi) \div 2
         IN  RAdd(RSumRange(s, lo, mid), RSumRange(s, mid + 1, hi))

RSum(s) == RSumRange(s, 1, Len(s))

(* np.sum of a 2D array *)
RSum2(g) == RSum([i \in DOMAIN g |-> RSum(g[i])])

RECURSIVE ISumRange(_, _, _)
ISumRange(s, lo, hi) ==
    IF lo > hi THEN 0
    ELSE IF lo = hi THEN s[lo]
    ELSE LET mid == (lo + hi) \div 2
         IN  ISumRange(s, lo, mid) + ISumRange(s, mid + 1, hi)

ISum(s) == ISumRange(s, 1, Len(s))

SeqMin(s) == CHOOSE m \in {s[k] : k \in DOMAIN s} : \A k \in DOMAIN s : m <= s[k]
SeqMax(s) == CHOOSE m \in {s[k] : k \in DOMAIN s} : \A k \in DOMAIN s : m >= s[k]

(* an array given by a rule, laid out element by element *)
Arr(f) == f \o <<>>

(* np.sign *)
np_sign(r) == Sgn(r)

(* -x_b : a new array holding the negated values *)
ArrNeg(a) == Arr([k \in DOMAIN a |-> -a[k]])

(* optional values: a name not yet assigned, or the object None *)
Unbound == <<>>
None == <<>>
Some(v) == <<v>>
Val(w) == w[1]


-----------------------------------------------------------------------------
(* What the caller holds: inputs of the calls *)

Species == {"electron", "proton"}

(* bunches: z_b, x_b in grid units, weight >= 0 *)
Bunches ==
    { [z |-> <<0, 12>>, x |-> <<0, 3>>,  w |-> <<1, 2>>],
      [z |-> <<0, 12>>, x |-> <<-1, -4>>, w |-> <<0, 1>>],
      [z |-> <<4, 4>>,  x |-> <<1, 2>>,  w |-> <<1, 1>>] }

(* zlim, xlim: None or a pair of Python floats (min, max) *)
Lims ==
    { [zlim |-> None,       xlim |-> None],
      [zlim |-> None,       xlim |-> <<0, 3>>],
      [zlim |-> <<20, 32>>, xlim |-> None],
      [zlim |-> <<0, 12>>,  xlim |-> <<2, 2>>] }

NzValues == {1, 2, MaxNz}
NxValues == {1, MaxNx}
Gammas == {1000}
Rhos == {1, -2}

FirstBunch == [z |-> <<0, 12>>, x |-> <<0, 3>>, w |-> <<1, 2>>]

Scenarios ==
    { s \in [species : Species, bunch : Bunches, gamma : Gammas, rho : Rhos,
             nz : NzValues, nx : NxValues, lims : Lims] :
        s.species = "electron" \/ s.bunch = FirstBunch }

(* The array objects.  The first six belong to the caller; the last three   *)
(* are allocated by a running call.                                        *)
CallerArrays == {"z_b", "x_b", "x_neg", "weight"}
CallerGrids == {"psi_s_old", "psi_x_old"}
CallArrays == {"x_flip", "psi_s_new", "psi_x_new"}
ObjIds == CallerArrays \cup CallerGrids \cup CallArrays

NoArgs ==
    [fn |-> "none", rho |-> 0, x_b |-> "x_b", reuse |-> FALSE, debug |-> FALSE,
     map_f |-> "map", psi_s_grid_old |-> "psi_s_old", psi_x_grid_old |-> "psi_x_old",
     entry |-> [o \in {} |-> None]]

NoLoc ==
    [rho |-> 0, rho_sign |-> 0, x_b |-> "x_b",
     zmin |-> Unbound, zmax |-> Unbound, xmin |-> Unbound, xmax |-> Unbound,
     dz |-> Unbound, dx |-> Unbound,
     charge_grid |-> Unbound, norm |-> Unbound, lambda_grid |-> Unbound,
     lambda_grid_filtered_prime |-> Unbound,
     zvec |-> Unbound, xvec |-> Unbound, beta |-> Unbound,
     zvec2 |-> Unbound, xvec2 |-> Unbound,
     psi_s_grid |-> Unbound, psi_x_grid |-> Unbound,
     Ws_grid |-> Unbound, Wx_grid |-> Unbound,
     delta_kick |-> Unbound, xp_kick |-> Unbound,
     H |-> Unbound, Qtot |-> Unbound, density |-> Unbound,
     map_calls |-> 0]

NoOut == [status |-> "none", result |-> None]
NoPrev == [kind |-> "none"]
NoPool == [f |-> "none", started |-> 0, running |-> {}, rows |-> <<>>, overtook |-> FALSE]

Init ==
    /\ scen \in Scenarios
    /\ heap = [o \in ObjIds |->
                 CASE o = "z_b"    -> Some(scen.bunch.z)
                   [] o = "x_b"    -> Some(scen.bunch.x)
                   [] o = "x_neg"  -> Some(ArrNeg(scen.bunch.x))
                   [] o = "weight" -> Some(scen.bunch.w)
                   [] OTHER        -> None]
    /\ pc = "idle"
    /\ args = NoArgs
    /\ loc = NoLoc
    /\ out = NoOut
    /\ prev = NoPrev
    /\ pool = NoPool

-----------------------------------------------------------------------------
(* How a call ends *)

Raise(err) ==
    /\ pc' = "raised"
    /\ out' = [status |-> err, result |-> None]

Goto(next) ==
    /\ pc' = next
    /\ out' = out

-----------------------------------------------------------------------------
(* csr2d_kick_calc *)

(* the caller invokes the function in the orientation (rho, x_b) or in the  *)
(* mirrored one (-rho, -x_b), with or without its cached kernels, with or  *)
(* without debug                                                           *)
Call2D ==
    /\ pc = "idle"
    /\ \E mirrored \in BOOLEAN, reuse \in BOOLEAN, debug \in BOOLEAN :
          LET rho == IF mirrored THEN -scen.rho ELSE scen.rho
              x   == IF mirrored THEN "x_neg" ELSE "x_b"
          IN  /\ args' = [NoArgs EXCEPT !.fn = "csr2d_kick_calc", !.rho = rho,
                                        !.x_b = x, !.reuse = reuse, !.debug = debug,
                                        !.entry = [o \in CallerArrays \cup CallerGrids |-> heap[o]]]
              /\ loc' = [NoLoc EXCEPT !.rho = rho, !.x_b = x]
    /\ pc' = "assert"
    /\ out' = NoOut
    /\ UNCHANGED <<scen, heap, prev, pool>>

SpeciesSupported_Unchecked(species) == TRUE

(* the condition of the assert statement *)
SpeciesSupported(species) == species = "electron"

AssertSpecies ==
    /\ pc = "assert"
    /\ IF SpeciesSupported(scen.species) THEN Goto("sign") ELSE Raise("AssertionError")
    /\ UNCHANGED <<scen, heap, args, loc, prev, pool>>

XFlipTarget_InPlace(ref) == ref

(* x_b = -x_b binds the local name to a new array *)
XFlipTarget(ref) == "x_flip"

SignConvention ==
    /\ pc = "sign"
    /\ LET s == np_sign(loc.rho)
       IN  IF s = -1
           THEN LET t == XFlipTarget(loc.x_b)
                IN  /\ heap' = [heap EXCEPT ![t] = Some(ArrNeg(Val(heap[loc.x_b])))]
                    /\ loc' = [loc EXCEPT !.rho_sign = s, !.rho = -loc.rho, !.x_b = t]
           ELSE /\ heap' = heap
                /\ loc' = [loc EXCEPT !.rho_sign = s]
    /\ Goto("grid")
    /\ UNCHANGED <<scen, args, prev, pool>>

(* if zlim: ... else: z_b.min(), z_b.max() ; the same for x *)
GridSetup ==
    /\ pc = "grid"
    /\ LET zl == scen.lims.zlim
           xl == scen.lims.xlim
           z  == Val(heap["z_b"])
           x  == Val(heap[loc.x_b])
       IN  loc' = [loc EXCEPT
                     !.zmin = Some(R(IF zl # None THEN zl[1] ELSE SeqMin(z))),
                     !.zmax = Some(R(IF zl # None THEN zl[2] ELSE SeqMax(z))),
                     !.xmin = Some(R(IF xl # None THEN xl[1] ELSE SeqMin(x))),
                     !.xmax = Some(R(IF xl # None THEN xl[2] ELSE SeqMax(x)))]
    /\ Goto("cell")
    /\ UNCHANGED <<scen, heap, args, prev, pool>>

(* (hi - lo) / (n - 1): Python floats raise on a zero divisor, numpy floats *)
(* (from .min() and .max()) give inf or nan                                *)
PythonFloats(lim) == lim # None
CellDivides(lim, n) == ~(PythonFloats(lim) /\ n - 1 = 0)
Spacing(lo, hi, n) == RDiv(RSub(hi, lo), R(n - 1))

CellSize ==
    /\ pc = "cell"
    /\ IF ~CellDivides(scen.lims.zlim, scen.nz) \/ ~CellDivides(scen.lims.xlim, scen.nx)
       THEN /\ Raise("ZeroDivisionError")
            /\ loc' = IF CellDivides(scen.lims.zlim, scen.nz)
                      THEN [loc EXCEPT !.dz = Some(Spacing(Val(loc.zmin), Val(loc.zmax), scen.nz))]
                      ELSE loc
       ELSE /\ Goto("deposit")
            /\ loc' = [loc EXCEPT
                         !.dz = Some(Spacing(Val(loc.zmin), Val(loc.zmax), scen.nz)),
                         !.dx = Some(Spacing(Val(loc.xmin), Val(loc.xmax), scen.nx))]
    /\ UNCHANGED <<scen, heap, args, prev, pool>>

(* cloud-in-cell: the share of a particle at cell coordinate q that goes to node i *)
CicShare(q, i) ==
    LET lo == RFloor(q)
        f  == RSub(q, R(lo))
    IN  IF i = lo THEN RSub(R(1), f) ELSE IF i = lo + 1 THEN f ELSE R(0)

(* histogram_cic_2d(z_b, x_b, weight, nz, zmin, zmax, nx, xmin, xmax): each *)
(* weight is split over the enclosing nodes; shares of nodes outside the   *)
(* grid are lost                                                           *)
histogram_cic_2d(z, x, w, nz, zmin, zmax, nx, xmin, xmax) ==
    LET sz == Spacing(zmin, zmax, nz)
        sx == Spacing(xmin, xmax, nx)
        ok == IsFinite(sz) /\ RPos(sz) /\ IsFinite(sx) /\ RPos(sx)
        qz(p) == RDiv(RSub(R(z[p]), zmin), sz)
        qx(p) == RDiv(RSub(R(x[p]), xmin), sx)
    IN  Arr([i \in 1..nz |-> Arr([j \in 1..nx |->
            IF ok
            THEN RSum([p \in DOMAIN w |->
                         RMul(R(w[p]), RMul(CicShare(qz(p), i - 1), CicShare(qx(p), j - 1)))])
            ELSE R(0)])])

Deposit ==
    /\ pc = "deposit"
    /\ loc' = [loc EXCEPT !.charge_grid =
                 Some(histogram_cic_2d(Val(heap["z_b"]), Val(heap[loc.x_b]), Val(heap["weight"]),
                                       scen.nz, Val(loc.zmin), Val(loc.zmax),
                                       scen.nx, Val(loc.xmin), Val(loc.xmax)))]
    /\ Goto("normalize")
    /\ UNCHANGED <<scen, heap, args, prev, pool>>

GridNorm_TotalWeight(charge_grid, w, dz, dx) == RMul(RMul(R(ISum(w)), dz), dx)

(* norm = np.sum(charge_grid) * dz * dx *)
GridNorm(charge_grid, w, dz, dx) == RMul(RMul(RSum2(charge_grid), dz), dx)

(* lambda_grid = charge_grid / norm *)
Normalize ==
    /\ pc = "normalize"
    /\ LET g == Val(loc.charge_grid)
           n == GridNorm(g, Val(heap["weight"]), Val(loc.dz), Val(loc.dx))
       IN  loc' = [loc EXCEPT !.norm = Some(n),
                              !.lambda_grid = Some(Arr([i \in DOMAIN g |-> Arr([j \in DOMAIN g[i] |->
                                                      RDiv(g[i][j], n)])]))]
    /\ Goto("filter")
    /\ UNCHANGED <<scen, heap, args, prev, pool>>

(* external routines, known only by their interface: equal arguments give *)
(* equal results                                                           *)
savgol_filter(grid, window, order) == <<"savgol_filter", grid, window, order>>
central_difference_z(grid, nz, nx, dz) == <<"central_difference_z", grid, nz, nx, dz>>
oaconvolve(a, b) == <<"oaconvolve", a, b>>
psi_s(z, x, beta) == <<"psi_s", z, x, beta>>
psi_x(z, x, beta) == <<"psi_x", z, x, beta>>
psi_x_where_x_equals_zero(z, dx, beta) ==
    Arr([i \in DOMAIN z |-> <<"psi_x_where_x_equals_zero", z[i], dx, beta>>])
Beta(gamma) == <<"sqrt(1-1/gamma^2)", gamma>>
TermNeg(t) == IF t[1] = "neg" THEN t[2] ELSE <<"neg", t>>

(* np.linspace(lo, hi, n) *)
Linspace(lo, hi, n) ==
    Arr([k \in 1..n |-> IF n = 1 THEN lo
                        ELSE RAdd(lo, RMul(R(k - 1), RDiv(RSub(hi, lo), R(n - 1))))])

(* savgol_filter of each column, central difference, axis vectors, beta *)
Filter ==
    /\ pc = "filter"
    /\ IF scen.nz < SavgolWindow
       THEN /\ Raise("ValueError")
            /\ loc' = loc
       ELSE /\ Goto("kernels")
            /\ loc' = [loc EXCEPT
                 !.lambda_grid_filtered_prime =
                     Some(central_difference_z(savgol_filter(Val(loc.lambda_grid), SavgolWindow, 2),
                                               scen.nz, scen.nx, Val(loc.dz))),
                 !.zvec = Some(Linspace(Val(loc.zmin), Val(loc.zmax), scen.nz)),
                 !.xvec = Some(Linspace(Val(loc.xmin), Val(loc.xmax), scen.nx)),
                 !.beta = Some(Beta(scen.gamma))]
    /\ UNCHANGED <<scen, heap, args, prev, pool>>

(* np.arange(-n, n, 1) * d : source index n holds 0 * d *)
DoubledAxis(n, d) == Arr([k \in 1..(2 * n) |-> RMul(R(k - 1 - n), d)])

(* the three argument grids handed to map_f: zm2 / 2 / rho, xm2 / rho,     *)
(* beta_grid; row i of each (source index i - 1)                           *)
MapArgs(nz, nx, dz, dx, rho, beta) ==
    [rows |-> 2 * nz,
     zs |-> [i \in 1..(2 * nz) |-> [j \in 1..(2 * nx) |->
                RDiv(RDiv(RMul(R(i - 1 - nz), dz), R(2)), R(rho))]],
     xs |-> [i \in 1..(2 * nz) |-> [j \in 1..(2 * nx) |->
                RDiv(RMul(R(j - 1 - nx), dx), R(rho))]],
     bs |-> [i \in 1..(2 * nz) |-> [j \in 1..(2 * nx) |-> beta]]]

(* one evaluation made by the map: f applied to row i of the three grids *)
EvalRow(f, a, i) ==
    Arr([j \in DOMAIN a.zs[i] |->
           IF f = "psi_s" THEN psi_s(a.zs[i][j], a.xs[i][j], a.bs[i][j])
                          ELSE psi_x(a.zs[i][j], a.xs[i][j], a.bs[i][j])])

(* np.array(list(map(f, zs, xs, bs))) with the builtin map *)
SequentialMap(f, a) == Arr([i \in 1..a.rows |-> EvalRow(f, a, i)])

ZeroColumn_OffByOne(nx) == nx - 1

(* the column index written by psi_x_grid[:, nx] = ... *)
ZeroColumn(nx) == nx

(* grid[:, col] = v *)
SetColumn(grid, col, v) ==
    Arr([i \in DOMAIN grid |->
           Arr([j \in DOMAIN grid[i] |-> IF j = col + 1 THEN v[i] ELSE grid[i][j]])])

ReusedGrids_Swapped(old_s, old_x) == <<old_x, old_s>>

(* psi_s_grid = psi_s_grid_old ; psi_x_grid = psi_x_grid_old *)
ReusedGrids(old_s, old_x) == <<old_s, old_x>>

Kernels ==
    /\ pc = "kernels"
    /\ args.reuse \/ args.map_f = "map"
    /\ IF args.reuse = TRUE
       THEN LET g == ReusedGrids(args.psi_s_grid_old, args.psi_x_grid_old)
            IN  /\ loc' = [loc EXCEPT !.psi_s_grid = Some(g[1]), !.psi_x_grid = Some(g[2])]
                /\ heap' = heap
       ELSE LET dz    == Val(loc.dz)
                dx    == Val(loc.dx)
                beta  == Val(loc.beta)
                zvec2 == DoubledAxis(scen.nz, dz)
                xvec2 == DoubledAxis(scen.nx, dx)
                a     == MapArgs(scen.nz, scen.nx, dz, dx, loc.rho, beta)
                gs    == SequentialMap("psi_s", a)
                gx    == SequentialMap("psi_x", a)
                col   == psi_x_where_x_equals_zero(zvec2, RDiv(dx, R(loc.rho)), beta)
            IN  /\ loc' = [loc EXCEPT !.zvec2 = Some(zvec2), !.xvec2 = Some(xvec2),
                                      !.psi_s_grid = Some("psi_s_new"),
                                      !.psi_x_grid = Some("psi_x_new"),
                                      !.map_calls = loc.map_calls + 2]
                /\ heap' = [heap EXCEPT !["psi_s_new"] = Some(gs),
                                        !["psi_x_new"] = Some(SetColumn(gx, ZeroColumn(scen.nx), col))]
    /\ Goto("convolve")
    /\ UNCHANGED <<scen, args, prev, pool>>

(* scipy refuses to convolve with None *)
Convolve ==
    /\ pc = "convolve"
    /\ LET gs == heap[Val(loc.psi_s_grid)]
           gx == heap[Val(loc.psi_x_grid)]
           lp == Val(loc.lambda_grid_filtered_prime)
           W(g) == <<"beta^2/rho*conv*dz*dx", Val(loc.beta), loc.rho, oaconvolve(lp, g),
                     Val(loc.dz), Val(loc.dx)>>
       IN  IF gs = None \/ gx = None
           THEN /\ Raise("ValueError")
                /\ loc' = loc
           ELSE /\ Goto("interp")
                /\ loc' = [loc EXCEPT !.Ws_grid = Some(W(Val(gs))), !.Wx_grid = Some(W(Val(gx)))]
    /\ UNCHANGED <<scen, heap, args, prev, pool>>

(* RectBivariateSpline(zvec, xvec, grid): more points than the spline degree *)
(* on each axis, both axes strictly increasing                             *)
SplineAccepts(nz, nx, dz, dx) ==
    /\ nz > SplineDegree
    /\ nx > SplineDegree
    /\ IsFinite(dz) /\ RPos(dz)
    /\ IsFinite(dx) /\ RPos(dx)

FinalXpKick_NotNegated(rho_sign, xp_kick) == xp_kick

(* if rho_sign == -1: xp_kick = -xp_kick *)
FinalXpKick(rho_sign, xp_kick) == IF rho_sign = -1 THEN TermNeg(xp_kick) ELSE xp_kick

(* kicks of all particles: kick_factor * interpolant.ev(z_b, x_b) *)
Kick(W, zvec, xvec, w, gamma, z, x) ==
    <<"kick_factor*ev", <<"r_e*Nb/gamma", ISum(w), gamma>>, W, zvec, xvec, z, x>>

Interpolate ==
    /\ pc = "interp"
    /\ IF ~SplineAccepts(scen.nz, scen.nx, Val(loc.dz), Val(loc.dx))
       THEN /\ Raise("ValueError")
            /\ loc' = loc
       ELSE LET z == Val(heap["z_b"])
                x == Val(heap[loc.x_b])
                w == Val(heap["weight"])
                k(W) == Kick(W, Val(loc.zvec), Val(loc.xvec), w, scen.gamma, z, x)
            IN  /\ Goto("result")
                /\ loc' = [loc EXCEPT !.delta_kick = Some(k(Val(loc.Ws_grid))),
                                      !.xp_kick = Some(FinalXpKick(loc.rho_sign, k(Val(loc.Wx_grid))))]
    /\ UNCHANGED <<scen, heap, args, prev, pool>>

DebugKeys ==
    {"zvec", "xvec", "zvec2", "xvec2", "Ws_grid", "Wx_grid", "psi_s_grid", "psi_x_grid",
     "charge_grid", "lambda_grid_filtered_prime"}

(* result = {...} ; if debug: result.update({...}) ; return result.  Reading *)
(* a local name that was never assigned raises UnboundLocalError           *)
BuildResult ==
    /\ pc = "result"
    /\ LET kicks == [k \in {"ddelta_ds", "dxp_ds"} |->
                       IF k = "ddelta_ds" THEN loc.delta_kick ELSE loc.xp_kick]
           full  == [k \in {"ddelta_ds", "dxp_ds"} \cup DebugKeys |->
                       IF k = "ddelta_ds" THEN loc.delta_kick
                       ELSE IF k = "dxp_ds" THEN loc.xp_kick
                       ELSE loc[k]]
       IN  IF args.debug
           THEN IF \E k \in DebugKeys : loc[k] = Unbound
                THEN Raise("UnboundLocalError")
                ELSE /\ pc' = "done"
                     /\ out' = [status |-> "ok", result |-> Some(full)]
           ELSE /\ pc' = "done"
                /\ out' = [status |-> "ok", result |-> Some(kicks)]
    /\ UNCHANGED <<scen, heap, args, loc, prev, pool>>

-----------------------------------------------------------------------------
(* The kernel build with map_f = executor.map of a pool of MaxWorkers       *)
(* workers: the evaluations are started in input order, run side by side   *)
(* and finish in any order; list(...) receives the results in input order  *)

CallWithExecutor ==
    /\ pc = "idle"
    /\ \E mirrored \in BOOLEAN :
          LET rho == IF mirrored THEN -scen.rho ELSE scen.rho
              x   == IF mirrored THEN "x_neg" ELSE "x_b"
          IN  /\ args' = [NoArgs EXCEPT !.fn = "csr2d_kick_calc", !.rho = rho, !.x_b = x,
                                        !.map_f = "executor.map",
                                        !.entry = [o \in CallerArrays \cup CallerGrids |-> heap[o]]]
              /\ loc' = [NoLoc EXCEPT !.rho = rho, !.x_b = x]
    /\ pc' = "assert"
    /\ out' = NoOut
    /\ UNCHANGED <<scen, heap, prev, pool>>

NewMap(f) ==
    [f |-> f, started |-> 0, running |-> {}, rows |-> Arr([k \in 1..(2 * scen.nz) |-> 0]),
     overtook |-> pool.overtook]

(* temp = map_f(psi_s, ...) *)
SubmitMap ==
    /\ pc = "kernels"
    /\ ~args.reuse /\ args.map_f = "executor.map"
    /\ pool' = NewMap("psi_s")
    /\ loc' = [loc EXCEPT !.zvec2 = Some(DoubledAxis(scen.nz, Val(loc.dz))),
                          !.xvec2 = Some(DoubledAxis(scen.nx, Val(loc.dx))),
                          !.map_calls = loc.map_calls + 1]
    /\ Goto("map")
    /\ UNCHANGED <<scen, heap, args, prev>>

(* a free worker takes the next evaluation *)
StartTask ==
    /\ pc = "map"
    /\ pool.started < 2 * scen.nz
    /\ Cardinality(pool.running) < MaxWorkers
    /\ pool' = [pool EXCEPT !.started = pool.started + 1,
                            !.running = pool.running \cup {pool.started + 1}]
    /\ UNCHANGED <<scen, heap, pc, args, loc, out, prev>>

ResultRow_ByCompletion(i, rank) == rank

(* the row of the grid that receives the result of evaluation i, the       *)
(* rank-th to finish: list(map_f(...)) is in input order                   *)
ResultRow(i, rank) == i

(* an evaluation finishes *)
FinishTask ==
    /\ pc = "map"
    /\ \E i \in pool.running :
          LET rank == pool.started - Cardinality(pool.running) + 1
          IN  pool' = [pool EXCEPT !.running = pool.running \ {i},
                                   !.rows = [pool.rows EXCEPT ![ResultRow(i, rank)] = i],
                                   !.overtook = pool.overtook \/ \E j \in pool.running : j < i]
    /\ UNCHANGED <<scen, heap, pc, args, loc, out, prev>>

(* np.array(list(temp)) once every evaluation is in; then the second map,   *)
(* and after it the overwrite of the zero column                           *)
GatherMap ==
    /\ pc = "map"
    /\ pool.started = 2 * scen.nz /\ pool.running = {}
    /\ LET dz   == Val(loc.dz)
           dx   == Val(loc.dx)
           beta == Val(loc.beta)
           a    == MapArgs(scen.nz, scen.nx, dz, dx, loc.rho, beta)
           grid == Arr([k \in 1..(2 * scen.nz) |-> EvalRow(pool.f, a, pool.rows[k])])
           col  == psi_x_where_x_equals_zero(Val(loc.zvec2), RDiv(dx, R(loc.rho)), beta)
       IN  IF pool.f = "psi_s"
           THEN /\ heap' = [heap EXCEPT !["psi_s_new"] = Some(grid)]
                /\ loc' = [loc EXCEPT !.psi_s_grid = Some("psi_s_new"),
                                      !.map_calls = loc.map_calls + 1]
                /\ pool' = NewMap("psi_x")
                /\ Goto("map")
           ELSE /\ heap' = [heap EXCEPT !["psi_x_new"] =
                                          Some(SetColumn(grid, ZeroColumn(scen.nx), col))]
                /\ loc' = [loc EXCEPT !.psi_x_grid = Some("psi_x_new")]
                /\ pool' = [pool EXCEPT !.f = "done"]
                /\ Goto("convolve")
    /\ UNCHANGED <<scen, args, prev>>

-----------------------------------------------------------------------------
(* csr1d_steady_state_kick_calc *)

Call1D ==
    /\ pc = "idle"
    /\ args' = [NoArgs EXCEPT !.fn = "csr1d_steady_state_kick_calc", !.rho = scen.rho,
                              !.entry = [o \in CallerArrays \cup CallerGrids |-> heap[o]]]
    /\ loc' = [NoLoc EXCEPT !.rho = scen.rho]
    /\ pc' = "assert1d"
    /\ out' = NoOut
    /\ UNCHANGED <<scen, heap, prev, pool>>

AssertSpecies1D ==
    /\ pc = "assert1d"
    /\ IF SpeciesSupported(scen.species) THEN Goto("density1d") ELSE Raise("AssertionError")
    /\ UNCHANGED <<scen, heap, args, loc, prev, pool>>

(* np.histogram(z, weights=w, bins=n): n equal bins over [min, max], the    *)
(* last one closed on the right; an empty range is widened by 1/2 each way *)
np_histogram(z, w, n) ==
    LET flat  == SeqMin(z) = SeqMax(z)
        lo    == IF flat THEN <<2 * SeqMin(z) - 1, 2>> ELSE R(SeqMin(z))
        hi    == IF flat THEN <<2 * SeqMax(z) + 1, 2>> ELSE R(SeqMax(z))
        bin(p) == IF R(z[p]) = hi THEN n - 1
                  ELSE RFloor(RDiv(RMul(RSub(R(z[p]), lo), R(n)), RSub(hi, lo)))
    IN  [H |-> Arr([k \in 1..n |-> ISum([p \in DOMAIN z |-> IF bin(p) = k - 1 THEN w[p] ELSE 0])]),
         first |-> lo, last |-> hi]

BinWidth1D_Histogram(zmin, zmax, nz) == RDiv(RSub(zmax, zmin), R(nz))

(* dz = (zmax - zmin) / (nz - 1) *)
BinWidth1D(zmin, zmax, nz) == RDiv(RSub(zmax, zmin), R(nz - 1))

(* H, edges = np.histogram(...) ... density = H / dz / Qtot *)
Density1D ==
    /\ pc = "density1d"
    /\ LET h    == np_histogram(Val(heap["z_b"]), Val(heap["weight"]), scen.nz)
           dz   == BinWidth1D(h.first, h.last, scen.nz)
           Qtot == ISum(Val(heap["weight"]))
       IN  loc' = [loc EXCEPT !.H = Some(h.H), !.zmin = Some(h.first), !.zmax = Some(h.last),
                              !.dz = Some(dz),
                              !.zvec = Some(Linspace(h.first, h.last, scen.nz)),
                              !.Qtot = Some(Qtot),
                              !.density = Some(Arr([k \in DOMAIN h.H |->
                                                      RDiv(RDiv(R(h.H[k]), dz), R(Qtot))]))]
    /\ Goto("wake1d")
    /\ UNCHANGED <<scen, heap, args, prev, pool>>

(* gradient, savgol_filter, Green function, convolution, interpolation *)
Wake1D ==
    /\ pc = "wake1d"
    /\ IF scen.nz < SavgolWindow
       THEN Raise("ValueError")
       ELSE LET wake == <<"wake", savgol_filter(<<"gradient/dz", Val(loc.density), Val(loc.dz)>>,
                                                SavgolWindow, 2),
                          RSub(Val(loc.zmax), Val(loc.zmin)), Val(loc.dz), Val(loc.Qtot), loc.rho>>
            IN  /\ pc' = "done"
                /\ out' = [status |-> "ok",
                           result |-> Some([denergy_ds |-> <<"np.interp", Val(heap["z_b"]),
                                                             Val(loc.zvec), wake>>,
                                            zvec |-> Val(loc.zvec),
                                            wake |-> wake])]
    /\ UNCHANGED <<scen, heap, args, loc, prev, pool>>

-----------------------------------------------------------------------------
(* the caller takes the result: it notes the kicks, and keeps the kernel   *)
(* grids of a debug result as its cache; the call's own arrays are dropped *)
Return ==
    /\ pc \in {"done", "raised"}
    /\ LET ok2d == out.status = "ok" /\ args.fn = "csr2d_kick_calc"
           res  == Val(out.result)
           keep == ok2d /\ "psi_s_grid" \in DOMAIN res /\ ~args.reuse
       IN  /\ prev' = IF ok2d
                      THEN [kind |-> "ok", rho |-> args.rho, x_b |-> args.x_b,
                            reuse |-> args.reuse, debug |-> args.debug,
                            ddelta_ds |-> Val(res.ddelta_ds), dxp_ds |-> Val(res.dxp_ds)]
                      ELSE prev
           /\ heap' = [o \in ObjIds |->
                         IF o \in CallArrays THEN None
                         ELSE IF keep /\ o = "psi_s_old" THEN heap[Val(res.psi_s_grid)]
                         ELSE IF keep /\ o = "psi_x_old" THEN heap[Val(res.psi_x_grid)]
                         ELSE heap[o]]
    /\ pc' = "idle"
    /\ args' = NoArgs
    /\ loc' = NoLoc
    /\ out' = NoOut
    /\ UNCHANGED <<scen, pool>>

Next ==
    \/ Call2D
    \/ AssertSpecies
    \/ SignConvention
    \/ GridSetup
    \/ CellSize
    \/ Deposit
    \/ Normalize
    \/ Filter
    \/ Kernels
    \/ Convolve
    \/ Interpolate
    \/ BuildResult
    \/ Call1D
    \/ AssertSpecies1D
    \/ Density1D
    \/ Wake1D
    \/ Return

Spec == Init /\ [][Next]_vars

(* calls that build the kernels through the pool, followed up to the end   *)
(* of the build                                                            *)
InitMap ==
    /\ Init
    /\ scen.species = "electron"
    /\ scen.bunch = FirstBunch
    /\ scen.nz >= SavgolWindow
    /\ scen.lims.zlim = None

NextMap ==
    \/ CallWithExecutor
    \/ AssertSpecies
    \/ SignConvention
    \/ GridSetup
    \/ CellSize
    \/ Deposit
    \/ Normalize
    \/ Filter
    \/ SubmitMap
    \/ StartTask
    \/ FinishTask
    \/ GatherMap

SpecMap == InitMap /\ [][NextMap]_vars

-----------------------------------------------------------------------------
(* Properties *)

Is2D == args.fn = "csr2d_kick_calc"
Is1D == args.fn = "csr1d_steady_state_kick_calc"

(* C1: with a species other than "electron" a call of either entry point    *)
(* ends with the assertion error at its first statement: no grid bound is  *)
(* computed, nothing is deposited or binned, map_f is never invoked and no *)
(* result mapping is returned                                              *)
C1_UnsupportedSpeciesFailsFirst ==
    scen.species # "electron" =>
        /\ pc \in {"idle", "assert", "assert1d", "raised"}
        /\ pc = "raised" => out.status = "AssertionError"
        /\ out.result = None
        /\ loc.zmin = Unbound /\ loc.zmax = Unbound /\ loc.xmin = Unbound /\ loc.xmax = Unbound
        /\ loc.charge_grid = Unbound /\ loc.H = Unbound
        /\ loc.map_calls = 0 /\ pool.started = 0
        /\ prev.kind = "none"

C1_Witness ==
    /\ scen.species # "electron"
    /\ pc = "raised"
    /\ Is2D
    /\ out.status = "AssertionError"

(* C2: a call of csr2d_kick_calc on a degenerate grid (nz < 2, nx < 2, or    *)
(* bounds of zero width) is rejected before the charge grid is built: once *)
(* it has left the cell-size computation it has ended with an error and    *)
(* holds no charge grid                                                    *)
DegenerateGrid ==
    \/ scen.nz < 2
    \/ scen.nx < 2
    \/ loc.zmax = loc.zmin
    \/ loc.xmax = loc.xmin

C2_DegenerateGridRejected ==
    (Is2D /\ loc.zmin # Unbound /\ pc # "cell" /\ DegenerateGrid) =>
        /\ pc = "raised"
        /\ loc.charge_grid = Unbound

(* C3: a call that returns after an earlier call of the same orientation,   *)
(* one of the two reusing the cached kernels and the other building them,  *)
(* returns the same ddelta_ds and dxp_ds as the earlier call                *)
SameOrientation == prev.kind = "ok" /\ prev.rho = args.rho /\ prev.x_b = args.x_b

C3_ReuseEquivalence ==
    (pc = "done" /\ Is2D /\ SameOrientation /\ prev.reuse # args.reuse) =>
        /\ Val(Val(out.result).ddelta_ds) = prev.ddelta_ds
        /\ Val(Val(out.result).dxp_ds) = prev.dxp_ds

(* the third call: a build that returns after a reuse call that returned    *)
C3_Witness ==
    /\ pc = "done" /\ Is2D /\ SameOrientation
    /\ ~args.reuse /\ prev.reuse
    /\ heap["psi_s_old"] # None

Mirrored == prev.kind = "ok" /\ prev.rho = -args.rho /\ prev.x_b # args.x_b

C5_SignRoundTrip ==
    (pc = "done" /\ Is2D /\ Mirrored) =>
        /\ Val(Val(out.result).ddelta_ds) = prev.ddelta_ds
        /\ Val(Val(out.result).dxp_ds) = TermNeg(prev.dxp_ds)
        /\ TermNeg(Val(Val(out.result).dxp_ds)) = prev.dxp_ds

C5_Witness ==
    /\ pc = "done" /\ Is2D /\ Mirrored
    /\ scen.lims.xlim # None
    /\ loc.rho_sign = -1

(* C6: a call of csr2d_kick_calc with debug=true that has computed its      *)
(* kicks returns a mapping with the kicks and every intermediate, for      *)
(* either value of reuse_psi_grids, and its kicks are those of a call of   *)
(* the same orientation without debug                                      *)
C6_DebugReturnsIntermediates ==
    (Is2D /\ args.debug /\ pc \in {"done", "raised"} /\ loc.delta_kick # Unbound) =>
        /\ out.status = "ok"
        /\ {"ddelta_ds", "dxp_ds"} \cup DebugKeys \subseteq DOMAIN Val(out.result)
        /\ (SameOrientation /\ ~prev.debug) =>
               /\ Val(Val(out.result).ddelta_ds) = prev.ddelta_ds
               /\ Val(Val(out.result).dxp_ds) = prev.dxp_ds

GridIntegral == RMul(RMul(RSum2(Val(loc.lambda_grid)), Val(loc.dz)), Val(loc.dx))

(* the charge the deposition put on the grid, and the charge of the bunch  *)
Deposited == RSum2(Val(loc.charge_grid))
BunchCharge == R(ISum(Val(heap["weight"])))

C9_CallerDataUntouched ==
    /\ heap["z_b"] = Some(scen.bunch.z)
    /\ heap["x_b"] = Some(scen.bunch.x)
    /\ heap["x_neg"] = Some(ArrNeg(scen.bunch.x))
    /\ heap["weight"] = Some(scen.bunch.w)
    /\ pc # "idle" => \A o \in CallerArrays \cup CallerGrids : heap[o] = args.entry[o]

(* a reuse call with rho < 0 that returned *)
C9_Witness ==
    /\ pc = "done" /\ Is2D
    /\ args.reuse
    /\ loc.rho_sign = -1
    /\ heap["x_flip"] # None
    /\ heap["psi_x_old"] # None

(* C10: in csr1d_steady_state_kick_calc the density summed over the nz      *)
(* bins, times the width (zmax - zmin) / nz of a histogram bin, is 1 for   *)
(* nz >= 2 and positive total weight                                       *)
C10_DensityIntegratesToOne ==
    (Is1D /\ loc.density # Unbound /\ scen.nz >= 2 /\ Val(loc.Qtot) > 0) =>
        RMul(RSum(Val(loc.density)),
             BinWidth1D_Histogram(Val(loc.zmin), Val(loc.zmax), scen.nz)) = R(1)

====
